---- MODULE Spec2Model ----
(***************************************************************************)
(* A model of fslx.py: the registry of operations filled by the `operate`  *)
(* decorator, the construction of one argparse subparser per registered    *)
(* operation, the parsing of a command line, and the dispatch loop that    *)
(* calls the chosen operation once per input file.                         *)
(*                                                                         *)
(* Spec  models a run of the script (module load, then the __main__ block).*)
(* HSpec models direct calls of the pure helper fslx_output_handler.       *)
(***************************************************************************)
EXTENDS Integers, Sequences, FiniteSets, TLC

VARIABLES
    pc,                      \* position of the script: load, build, parse, loop, exited, lib
    IMPLEMENTED_OPERATIONS,  \* the registry: an insertion-ordered dict, as a sequence of <<key, value>>
    nregs,                   \* number of operate(...) registrations performed so far
    lastReg,                 \* the last registration call and what it found (history)
    op_parsers,              \* the subparsers added, in order of add_parser calls
    disk,                    \* the files that exist and are readable
    argv,                    \* the command line handed to parse_args
    args,                    \* the Namespace returned by parse_args
    idx,                     \* position of the for loop in args.inputfiles
    calls,                   \* the calls of an operation's command made by the loop, with their outcome
    removed,                 \* the input files the script has deleted
    error,                   \* the error that ended the run
    exit,                    \* the exit status of the process, Running until it ends
    hin,                     \* HSpec: the arguments of a call of fslx_output_handler
    hout                     \* HSpec: what the call returned

vars == <<pc, IMPLEMENTED_OPERATIONS, nregs, lastReg, op_parsers, disk, argv, args,
          idx, calls, removed, error, exit, hin, hout>>

-----------------------------------------------------------------------------
(* Bounds *)

MaxRegistrations == 2
MaxWords == 3

-----------------------------------------------------------------------------
(* Values *)

None == "None"
Unset == "unset"
Running == 0 - 1

OpNames == {"nvols", "highpass"}
Funcs == {"nvols", "highpass"}
ArgumentNames == {None, "sigma"}
SubcommandWords == OpNames \cup {"moco"}
Files == {"a.nii", "b.nii"}
Words == Files \cup {"-"}
TargetDirs == {".", "/out"}

BoundedSeq(S, n) == UNION {[1..k -> S] : k \in 0..n}

-----------------------------------------------------------------------------
(* The registry *)

Operations(name, command, argument, pipe, parallel) ==
    [name |-> name, command |-> command, argument |-> argument,
     pipe |-> pipe, parallel |-> parallel]

Keys(d) == {d[i][1] : i \in 1..Len(d)}

HasKey(d, k) == k \in Keys(d)

GetItem(d, k) == d[CHOOSE i \in 1..Len(d) : d[i][1] = k][2]

SetItem(d, k, v) ==
    IF HasKey(d, k)
    THEN [i \in 1..Len(d) |-> IF d[i][1] = k THEN <<k, v>> ELSE d[i]]
    ELSE Append(d, <<k, v>>)

\* real_operate naming the entry after the decorated function.
real_operate_func_name(registry, name, func, argument, pipe, parallel) ==
    SetItem(registry, name, Operations(func, func, argument, pipe, parallel))

real_operate(registry, name, func, argument, pipe, parallel) ==
    SetItem(registry, name, Operations(name, func, argument, pipe, parallel))

-----------------------------------------------------------------------------
(* Init *)

NoReg == [name |-> None, existed |-> FALSE, prior |-> None, raised |-> FALSE]
NoArgv == [in_place |-> FALSE, target |-> ".", sub |-> None, rest |-> <<>>]
NoArgs == [chosen_op |-> Unset, extra |-> None, has_inputfiles |-> FALSE, inputfiles |-> <<>>]
NoError == [kind |-> None, what |-> None]
NoHin == [dir |-> None, stem |-> None, ext |-> None, suffix |-> None, targetdir |-> None]

Init ==
    /\ pc = "load"
    /\ IMPLEMENTED_OPERATIONS = <<>>
    /\ nregs = 0
    /\ lastReg = NoReg
    /\ op_parsers = <<>>
    /\ disk \in SUBSET Files
    /\ argv = NoArgv
    /\ args = NoArgs
    /\ idx = 1
    /\ calls = <<>>
    /\ removed = {}
    /\ error = NoError
    /\ exit = Running
    /\ hin = NoHin
    /\ hout = Unset

-----------------------------------------------------------------------------
(* Module load: the @operate(...) decorators *)

operate(name, func, argument, pipe, parallel) ==
    /\ pc = "load"
    /\ nregs < MaxRegistrations
    /\ IMPLEMENTED_OPERATIONS' =
           real_operate(IMPLEMENTED_OPERATIONS, name, func, argument, pipe, parallel)
    /\ nregs' = nregs + 1
    /\ lastReg' = [name |-> name,
                   existed |-> HasKey(IMPLEMENTED_OPERATIONS, name),
                   prior |-> IF HasKey(IMPLEMENTED_OPERATIONS, name)
                             THEN GetItem(IMPLEMENTED_OPERATIONS, name) ELSE None,
                   raised |-> FALSE]
    /\ UNCHANGED <<pc, op_parsers, disk, argv, args, idx, calls, removed, error, exit, hin, hout>>

Register ==
    \E name \in OpNames, func \in Funcs, argument \in ArgumentNames, flag \in BOOLEAN :
        operate(name, func, argument, flag, flag)

EnterMain ==
    /\ pc = "load"
    /\ pc' = "build"
    /\ lastReg' = NoReg
    /\ UNCHANGED <<IMPLEMENTED_OPERATIONS, nregs, op_parsers, disk, argv, args, idx, calls,
                   removed, error, exit, hin, hout>>

-----------------------------------------------------------------------------
(* __main__: one subparser per registered operation *)

add_parser(op_name, op) ==
    [name |-> op_name,
     positionals |-> IF op.argument # None
                     THEN <<op.argument, "inputfiles">>
                     ELSE <<"inputfiles">>]

BuildParsers ==
    /\ pc = "build"
    /\ op_parsers' = [i \in 1..Len(IMPLEMENTED_OPERATIONS) |->
                         add_parser(IMPLEMENTED_OPERATIONS[i][1], IMPLEMENTED_OPERATIONS[i][2])]
    /\ pc' = "parse"
    /\ UNCHANGED <<IMPLEMENTED_OPERATIONS, nregs, lastReg, disk, argv, args, idx, calls,
                   removed, error, exit, hin, hout>>

-----------------------------------------------------------------------------
(* parser.parse_args() *)

ArgparseErrors == {"invalid choice", "arguments required", "can't open"}
OpenFailed == "<open failed>"

\* A file type that opens nothing while parsing.
FileType_lazy(word, files) ==
    IF word = "-" THEN "<stdin>" ELSE word

\* argparse.FileType('r') applied to one word: the name of the file object it
\* returns, or OpenFailed when open() raises.
FileType(word, files) ==
    IF word = "-" THEN "<stdin>"
    ELSE IF word \in files THEN word
    ELSE OpenFailed

Choices(parsers) == {parsers[i].name : i \in 1..Len(parsers)}

Subparser(parsers, sub) == parsers[CHOOSE i \in 1..Len(parsers) : parsers[i].name = sub]

\* The words a subparser hands to its inputfiles positional.
InputWords(parser, rest) ==
    IF Len(parser.positionals) = 2 THEN Tail(rest) ELSE rest

FirstFailed(words, files) ==
    CHOOSE i \in 1..Len(words) :
        /\ FileType(words[i], files) = OpenFailed
        /\ \A j \in 1..(i - 1) : FileType(words[j], files) # OpenFailed

parse_args(parsers, cmd, files) ==
    IF cmd.sub = None
    THEN [error |-> NoError,
          args |-> [chosen_op |-> None, extra |-> None,
                    has_inputfiles |-> FALSE, inputfiles |-> <<>>]]
    ELSE IF cmd.sub \notin Choices(parsers)
    THEN [error |-> [kind |-> "invalid choice", what |-> cmd.sub], args |-> NoArgs]
    ELSE LET parser == Subparser(parsers, cmd.sub)
             words == InputWords(parser, cmd.rest)
         IN  IF Len(parser.positionals) = 2 /\ cmd.rest = <<>>
             THEN [error |-> [kind |-> "arguments required", what |-> parser.positionals[1]],
                   args |-> NoArgs]
             ELSE IF \E i \in 1..Len(words) : FileType(words[i], files) = OpenFailed
             THEN [error |-> [kind |-> "can't open", what |-> words[FirstFailed(words, files)]],
                   args |-> NoArgs]
             ELSE [error |-> NoError,
                   args |-> [chosen_op |-> cmd.sub,
                             extra |-> IF Len(parser.positionals) = 2
                                       THEN cmd.rest[1] ELSE None,
                             has_inputfiles |-> TRUE,
                             inputfiles |-> [i \in 1..Len(words) |-> FileType(words[i], files)]]]

\* An exit status that reports success after an exception of a command.
ExitStatus_swallowed(err) ==
    IF err.kind \in ArgparseErrors THEN 2 ELSE 0

\* The exit status of the interpreter: parser.error() exits with 2, an
\* uncaught exception with 1, falling off the end of the script with 0.
ExitStatus(err) ==
    IF err.kind = None THEN 0
    ELSE IF err.kind \in ArgparseErrors THEN 2
    ELSE 1

ParseArgs ==
    /\ pc = "parse"
    /\ \E in_place \in BOOLEAN, target \in TargetDirs,
          sub \in SubcommandWords \cup {None}, rest \in BoundedSeq(Words, MaxWords) :
          /\ sub = None => rest = <<>>
          /\ LET cmd == [in_place |-> in_place, target |-> target, sub |-> sub, rest |-> rest]
                 res == parse_args(op_parsers, cmd, disk)
             IN  /\ argv' = cmd
                 /\ args' = res.args
                 /\ error' = res.error
                 /\ IF res.error = NoError
                    THEN pc' = "loop" /\ exit' = exit
                    ELSE pc' = "exited" /\ exit' = ExitStatus(res.error)
    /\ UNCHANGED <<IMPLEMENTED_OPERATIONS, nregs, lastReg, op_parsers, disk, idx, calls,
                   removed, hin, hout>>

-----------------------------------------------------------------------------
(* The operations' commands *)

\* The number of parameters without and with a default value.
Required(func) == IF func = "nvols" THEN 1 ELSE 2
Optional(func) == IF func = "nvols" THEN 0 ELSE 1

\* The ways the body of a command can end: check_output raises
\* CalledProcessError when the external tool fails; highpass reads the
\* undefined name `suffix` after its first external call.
BodyOutcomes(func) ==
    IF func = "nvols" THEN {"ok", "CalledProcessError"}
    ELSE {"CalledProcessError", "NameError"}

CallOutcomes(func, a) ==
    IF Len(a) < Required(func) \/ Len(a) > Required(func) + Optional(func)
    THEN {"TypeError"}
    ELSE BodyOutcomes(func)

-----------------------------------------------------------------------------
(* The dispatch loop *)

\* The arguments the loop passes to the command.
CommandArguments(namespace, inputfile) == <<inputfile>>

\* A loop body that deletes the input whatever the outcome of the command.
IterationRemoves_eager(deleted, inputfile, in_place, outcome) ==
    IF in_place THEN deleted \cup {inputfile} ELSE deleted

\* The input files deleted once one iteration of the loop has run: the loop
\* body makes no call that removes a file.
IterationRemoves(deleted, inputfile, in_place, outcome) == deleted

NoInputfiles ==
    /\ pc = "loop"
    /\ ~args.has_inputfiles
    /\ error' = [kind |-> "AttributeError", what |-> "inputfiles"]
    /\ exit' = ExitStatus(error')
    /\ pc' = "exited"
    /\ UNCHANGED <<IMPLEMENTED_OPERATIONS, nregs, lastReg, op_parsers, disk, argv, args, idx,
                   calls, removed, hin, hout>>

Iterate ==
    /\ pc = "loop"
    /\ args.has_inputfiles
    /\ idx <= Len(args.inputfiles)
    /\ LET inputfile == args.inputfiles[idx]
       IN  IF ~HasKey(IMPLEMENTED_OPERATIONS, args.chosen_op)
           THEN /\ error' = [kind |-> "KeyError", what |-> args.chosen_op]
                /\ exit' = ExitStatus(error')
                /\ pc' = "exited"
                /\ UNCHANGED <<idx, calls, removed>>
           ELSE LET op == GetItem(IMPLEMENTED_OPERATIONS, args.chosen_op)
                    a == CommandArguments(args, inputfile)
                IN  \E outcome \in CallOutcomes(op.command, a) :
                        /\ calls' = Append(calls, [op |-> op.name, command |-> op.command,
                                                   index |-> idx, arguments |-> a,
                                                   outcome |-> outcome])
                        /\ removed' = IterationRemoves(removed, inputfile, argv.in_place, outcome)
                        /\ IF outcome = "ok"
                           THEN /\ idx' = idx + 1
                                /\ UNCHANGED <<pc, error, exit>>
                           ELSE /\ error' = [kind |-> outcome, what |-> inputfile]
                                /\ exit' = ExitStatus(error')
                                /\ pc' = "exited"
                                /\ idx' = idx
    /\ UNCHANGED <<IMPLEMENTED_OPERATIONS, nregs, lastReg, op_parsers, disk, argv, args, hin, hout>>

Exhausted ==
    /\ pc = "loop"
    /\ args.has_inputfiles
    /\ idx > Len(args.inputfiles)
    /\ exit' = ExitStatus(error)
    /\ pc' = "exited"
    /\ UNCHANGED <<IMPLEMENTED_OPERATIONS, nregs, lastReg, op_parsers, disk, argv, args, idx,
                   calls, removed, error, hin, hout>>

Next == Register \/ EnterMain \/ BuildParsers \/ ParseArgs \/ NoInputfiles \/ Iterate \/ Exhausted

Spec == Init /\ [][Next]_vars

-----------------------------------------------------------------------------
(* Direct calls of fslx_output_handler *)

Dirs == {"/a/b", "/data", "."}
Stems == {"img", "rest"}
Extensions == {".nii.gz", ".nii"}
Suffixes == {"_hp", "_mc"}
HandlerTargets == {None, "/out", "/tmp"}

PathOf(dir, stem, ext) == dir \o "/" \o stem \o ext

\* The body of the function is `pass`: every call returns None.
fslx_output_handler(inputfile, suffix, targetdir) == None

HInit ==
    /\ pc = "lib"
    /\ IMPLEMENTED_OPERATIONS = <<>>
    /\ nregs = 0
    /\ lastReg = NoReg
    /\ op_parsers = <<>>
    /\ disk = {}
    /\ argv = NoArgv
    /\ args = NoArgs
    /\ idx = 1
    /\ calls = <<>>
    /\ removed = {}
    /\ error = NoError
    /\ exit = Running
    /\ hin \in [dir : Dirs, stem : Stems, ext : Extensions, suffix : Suffixes,
                targetdir : HandlerTargets]
    /\ hout = Unset

CallHandler ==
    /\ pc = "lib"
    /\ hout = Unset
    /\ hout' = fslx_output_handler(PathOf(hin.dir, hin.stem, hin.ext), hin.suffix, hin.targetdir)
    /\ UNCHANGED <<pc, IMPLEMENTED_OPERATIONS, nregs, lastReg, op_parsers, disk, argv, args,
                   idx, calls, removed, error, exit, hin>>

HNext == CallHandler

HSpec == HInit /\ [][HNext]_vars

-----------------------------------------------------------------------------
(* Properties *)

Terminated == pc = "exited"

\* The words of the command line that name input files, once a registered
\* subcommand has been given its own arguments.
HasInputList ==
    /\ argv.sub \in Choices(op_parsers)
    /\ ~(Len(Subparser(op_parsers, argv.sub).positionals) = 2 /\ argv.rest = <<>>)

InputList == InputWords(Subparser(op_parsers, argv.sub), argv.rest)

\* A word refers to an existing readable file: a file on disk, or "-", which
\* argparse takes as the standard input.
Readable(word) == word = "-" \/ word \in disk

\* C1: registering an operation under a name already in the registry fails
\* with an error and leaves the entry stored under that name unchanged.
C1_DuplicateRegistrationFails ==
    lastReg.existed =>
        /\ lastReg.raised
        /\ GetItem(IMPLEMENTED_OPERATIONS, lastReg.name) = lastReg.prior

\* C2: when arguments are parsed, the subcommand names are exactly the keys of
\* the registry, each key has exactly one subcommand, and the entry found under
\* a subcommand's name is the Operation whose name field is that name.
C2_SubcommandsMatchRegistry ==
    pc = "parse" =>
        /\ Choices(op_parsers) = Keys(IMPLEMENTED_OPERATIONS)
        /\ \A n \in Keys(IMPLEMENTED_OPERATIONS) :
              /\ Cardinality({i \in 1..Len(op_parsers) : op_parsers[i].name = n}) = 1
              /\ GetItem(IMPLEMENTED_OPERATIONS, n).name = n

C2_Witness ==
    /\ pc = "parse"
    /\ Keys(IMPLEMENTED_OPERATIONS) = OpNames
    /\ Len(op_parsers) = 2

C4_AllInputsAttempted ==
    (Terminated /\ args.has_inputfiles) =>
        /\ Len(calls) = Len(args.inputfiles)
        /\ \A i \in 1..Len(calls) : calls[i].index = i

\* C5: the exit status is 0 exactly when the action succeeded for every input
\* of the invocation; it is non-zero when the action failed for an input and
\* when argument parsing failed.
AllSucceeded ==
    /\ args.has_inputfiles
    /\ Len(calls) = Len(args.inputfiles)
    /\ \A i \in 1..Len(calls) :
          /\ calls[i].outcome = "ok"
          /\ calls[i].arguments[1] = args.inputfiles[i]

C5_ExitStatus ==
    Terminated =>
        /\ exit = 0 <=> AllSucceeded
        /\ (\E i \in 1..Len(calls) : calls[i].outcome # "ok") => exit # 0
        /\ args = NoArgs => exit # 0

C5_Witness ==
    /\ Terminated
    /\ exit # 0
    /\ Len(calls) = 2
    /\ calls[1].outcome = "ok"
    /\ calls[2].outcome = "CalledProcessError"

\* C6: an input file the script has deleted is one whose action had reported
\* success, in a run with the in-place flag set.
C6_DeletedOnlyAfterSuccess ==
    \A f \in removed :
        /\ argv.in_place
        /\ \E i \in 1..Len(calls) : calls[i].arguments[1] = f /\ calls[i].outcome = "ok"

C6_Witness ==
    /\ Terminated
    /\ argv.in_place
    /\ Len(calls) = 2
    /\ calls[1].outcome = "ok"
    /\ calls[2].outcome # "ok"
    /\ calls[2].arguments[1] \notin removed

\* C7: with the in-place flag set, every input whose action succeeded has been
\* deleted when the run ends.
C7_SucceededInputsDeleted ==
    (Terminated /\ argv.in_place) =>
        \A i \in 1..Len(calls) :
            calls[i].outcome = "ok" => calls[i].arguments[1] \in removed

\* C8: the output-filename deriver returns the input's base name with the
\* suffix inserted before the extension, in the target directory when one is
\* given and in the input's own directory otherwise.
C8_DerivedOutputPath ==
    hout # Unset =>
        hout = PathOf(IF hin.targetdir = None THEN hin.dir ELSE hin.targetdir,
                      hin.stem \o hin.suffix, hin.ext)

\* C9: the action is invoked for each input with that input's path, together
\* with the extra argument value parsed from the command line when the
\* operation declares an extra argument name.
C9_ActionReceivesExtraArgument ==
    \A i \in 1..Len(calls) :
        LET op == GetItem(IMPLEMENTED_OPERATIONS, calls[i].op)
        IN  /\ calls[i].arguments[1] = args.inputfiles[calls[i].index]
            /\ op.argument # None =>
                  /\ Len(calls[i].arguments) >= 2
                  /\ calls[i].arguments[2] = args.extra

\* C10: when the dispatch key produced by parsing has no registry entry (the
\* command line names no subcommand), the run ends with the error of a failed
\* registry lookup and no action is invoked.
C10_UnknownOperationReported ==
    (Terminated /\ args.chosen_op # Unset /\ ~HasKey(IMPLEMENTED_OPERATIONS, args.chosen_op)) =>
        /\ error.kind = "KeyError"
        /\ calls = <<>>

====
